---------------------------- MODULE Spec2Model ----------------------------
(***************************************************************************)
(* Model of the text-preparation pipeline of superdog-backend:             *)
(*   docs/txt-to-csv-converter.py  split_content, process_txt_file,        *)
(*                                 write_csv_file, convert_to_csv          *)
(*   scripts/ingest.py             ingest_data                             *)
(*                                                                         *)
(* A Python string is a sequence of symbols.  A symbol is one character    *)
(* ("a", "é", " ", ".", "\n") or one literal word of the input format      *)
(* kept atomic ("Chapter", "Lesson", "TRANSCRIPTION:", "==").  Utf8Bytes   *)
(* gives the number of bytes a symbol encodes to, so byte length and       *)
(* character length differ as they do in the code.                         *)
(*                                                                         *)
(* Four specifications share the variables; each leaves the variables of   *)
(* the other three at Idle:                                                *)
(*   SpecSplit    one call of split_content                                *)
(*   SpecProcess  one call of process_txt_file                             *)
(*   SpecPack     convert_to_csv (FairSpecPack: the same, the single       *)
(*                thread always takes its next step)                       *)
(*   SpecIngest   ingest_data                                              *)
(***************************************************************************)
EXTENDS Integers, Sequences, FiniteSets, TLC

VARIABLES
    pc,                 \* position of the running function
    content,            \* split_content / process_txt_file: the text
    max_length,         \* split_content: the byte ceiling of a part
    parts,              \* split_content: the returned list
    entries,            \* process_txt_file: the returned records
    inputs,             \* convert_to_csv: per listed file, what processing it gives
    file_pos,           \* convert_to_csv / ingest_data: files handled so far
    all_entries,        \* convert_to_csv: all_entries
    remaining_entries,  \* convert_to_csv: remaining_entries
    file_index,         \* convert_to_csv: file_index
    batch,              \* convert_to_csv: batch
    written,            \* convert_to_csv: the batch written to output_<k>.csv, per k
    max_size,           \* write_csv_file: the byte ceiling of a batch
    filenames,          \* ingest_data: per listed file, its kind
    loaded,             \* ingest_data: len(all_texts_with_source)
    total_chunks,       \* ingest_data: total_chunks
    i,                  \* ingest_data: start index of the current batch
    attempt,            \* ingest_data: attempt (0-based)
    wait_time,          \* ingest_data: wait_time of the pending sleep
    attempts,           \* per batch: calls of vector_store.add_documents
    fails,              \* per batch: calls that raised
    sleeps,             \* per batch: the time.sleep durations, in order
    committed           \* batches the remote store accepted

vars == <<pc, content, max_length, parts, entries, inputs, file_pos, all_entries,
          remaining_entries, file_index, batch, written, max_size, filenames, loaded,
          total_chunks, i, attempt, wait_time, attempts, fails, sleeps, committed>>

splitVars   == <<content, max_length, parts>>
processVars == <<entries>>
packVars    == <<inputs, all_entries, remaining_entries, file_index, batch, written,
                 max_size>>
ingestVars  == <<filenames, loaded, total_chunks, i, attempt, wait_time,
                 attempts, fails, sleeps, committed>>

Idle == "idle"

-----------------------------------------------------------------------------
(* Bounds of the model *)

MaxContentLen == 5      \* symbols in a text given to split_content
MaxCeiling    == 4      \* largest byte ceiling tried for a part

-----------------------------------------------------------------------------
(* Strings *)

SeqsUpTo(S, n) == UNION {[1..k -> S] : k \in 0..n}

RECURSIVE Concat(_)
Concat(ss) == IF ss = <<>> THEN <<>> ELSE Head(ss) \o Concat(Tail(ss))

\* len(c.encode('utf-8')) of one symbol
Utf8Bytes(c) ==
    CASE c = "é"              -> 2
      [] c = "=="             -> 2
      [] c = "Part"           -> 4
      [] c = "document"       -> 8
      [] c = "transcript"     -> 10
      [] c = "Lesson"         -> 6
      [] c = "Chapter"        -> 7
      [] c = "TRANSCRIPTION:" -> 14
      [] OTHER                -> 1

\* len(s.encode('utf-8'))
RECURSIVE Utf8Len(_)
Utf8Len(s) == IF s = <<>> THEN 0 ELSE Utf8Bytes(Head(s)) + Utf8Len(Tail(s))

IsSpace(c) == c \in {" ", "\n"}

RECURSIVE LStrip(_)
LStrip(s) == IF s # <<>> /\ IsSpace(Head(s)) THEN LStrip(Tail(s)) ELSE s

RECURSIVE RStrip(_)
RStrip(s) ==
    IF s # <<>> /\ IsSpace(s[Len(s)]) THEN RStrip(SubSeq(s, 1, Len(s) - 1)) ELSE s

\* str.strip()
Strip(s) == RStrip(LStrip(s))

-----------------------------------------------------------------------------
(* split_content *)

IsTerminator(c) == c \in {".", "!", "?"}

\* re.split('([.!?]+)', content) from position k on: acc holds the finished
\* pieces, cur the piece being read; pieces at odd positions are the texts
\* between terminator runs, pieces at even positions the terminator runs.
RECURSIVE ReSplitFrom(_, _, _, _)
ReSplitFrom(text, k, acc, cur) ==
    LET inText == Len(acc) % 2 = 0 IN
    IF k > Len(text)
    THEN IF inText THEN Append(acc, cur) ELSE Append(Append(acc, cur), <<>>)
    ELSE IF IsTerminator(text[k]) = inText
         THEN ReSplitFrom(text, k + 1, Append(acc, cur), <<text[k]>>)
         ELSE ReSplitFrom(text, k + 1, acc, Append(cur, text[k]))

ReSplit(text) == ReSplitFrom(text, 1, <<>>, <<>>)

\* range(0, len(sentences)-1, 2), as 1-based indices
SentenceIndices(sentences) == {k \in 1..(Len(sentences) - 1) : k % 2 = 1}

\* sentences[i] + (sentences[i+1] if i+1 < len(sentences) else '')
SentenceAt(sentences, k) ==
    sentences[k] \o (IF k + 1 <= Len(sentences) THEN sentences[k + 1] ELSE <<>>)

\* the for loop of split_content from index k on, then the final flush
RECURSIVE SplitLoop(_, _, _, _, _)
SplitLoop(sentences, k, ps, current_part, ceiling) ==
    IF k \notin SentenceIndices(sentences)
    THEN IF current_part # <<>> THEN Append(ps, Strip(current_part)) ELSE ps
    ELSE LET sentence == SentenceAt(sentences, k) IN
         IF Utf8Len(current_part \o sentence) <= ceiling
         THEN SplitLoop(sentences, k + 2, ps, current_part \o sentence, ceiling)
         ELSE SplitLoop(sentences, k + 2,
                        IF current_part # <<>> THEN Append(ps, Strip(current_part))
                                               ELSE ps,
                        sentence, ceiling)

split_content(text, ceiling) ==
    IF Utf8Len(text) <= ceiling
    THEN <<text>>
    ELSE SplitLoop(ReSplit(text), 1, <<>>, <<>>, ceiling)

-----------------------------------------------------------------------------
(* SpecSplit: split_content applied to every text of at most MaxContentLen  *)
(* symbols, under every ceiling up to MaxCeiling.                           *)

SplitAlphabet == {"a", "é", " ", "."}

IdlePack ==
    /\ inputs = Idle /\ all_entries = Idle /\ remaining_entries = Idle
    /\ file_index = Idle /\ batch = Idle /\ written = Idle /\ max_size = Idle
IdleIngest ==
    /\ filenames = Idle /\ loaded = Idle /\ total_chunks = Idle /\ i = Idle
    /\ attempt = Idle /\ wait_time = Idle /\ attempts = Idle /\ fails = Idle
    /\ sleeps = Idle /\ committed = Idle

InitSplit ==
    /\ pc = "split_call"
    /\ content \in SeqsUpTo(SplitAlphabet, MaxContentLen)
    /\ max_length \in 1..MaxCeiling
    /\ parts = <<>>
    /\ entries = Idle /\ file_pos = Idle
    /\ IdlePack /\ IdleIngest

CallSplitContent ==
    /\ pc = "split_call"
    /\ parts' = split_content(content, max_length)
    /\ pc' = "split_done"
    /\ UNCHANGED <<content, max_length, file_pos, processVars, packVars, ingestVars>>

NextSplit == CallSplitContent

SpecSplit == InitSplit /\ [][NextSplit]_vars

\* The sentences of a text, as the Chunker's contract reads them: each stretch
\* of text with the terminator run that ends it, and the text left after the
\* last terminator run when it is not blank.
SentencesOf(text) ==
    LET pieces == ReSplit(text)
        paired == {pieces[k] \o pieces[k + 1] :
                     k \in {j \in 1..(Len(pieces) - 1) : j % 2 = 1}}
        last   == pieces[Len(pieces)]
    IN  paired \cup (IF Strip(last) # <<>> THEN {last} ELSE {})

\* text is ps[1], ps[2], ... in this order with only whitespace before, between
\* and after them
RECURSIVE Reassembles(_, _)
Reassembles(text, ps) ==
    LET t == LStrip(text) IN
    IF ps = <<>>
    THEN t = <<>>
    ELSE LET n == Len(Head(ps)) IN
         /\ n <= Len(t)
         /\ SubSeq(t, 1, n) = Head(ps)
         /\ Reassembles(SubSeq(t, n + 1, Len(t)), Tail(ps))

\* C5: when split_content returns n > 1 parts, the parts in order are the whole
\* block: nothing but whitespace at the part boundaries is omitted, nothing is
\* duplicated, and the order is kept.
C5_PartsReproduceBlock ==
    (pc = "split_done" /\ Len(parts) > 1) => Reassembles(content, parts)

\* C6: every returned part is at most max_length bytes unless it is one sentence
\* that alone exceeds max_length, and every such sentence is returned whole as a
\* part (neither fragmented nor dropped).
C6_PartsWithinCeilingOrWholeSentence ==
    pc = "split_done" =>
        /\ \A k \in 1..Len(parts) :
              \/ Utf8Len(parts[k]) <= max_length
              \/ \E s \in SentencesOf(content) :
                    Utf8Len(s) > max_length /\ parts[k] = Strip(s)
        /\ \A s \in SentencesOf(content) :
              Utf8Len(Strip(s)) > max_length =>
                  \E k \in 1..Len(parts) : parts[k] = Strip(s)

\* The size half of C6 alone, which the code keeps.
PartsWithinCeilingOrSingleSentence ==
    pc = "split_done" =>
        \A k \in 1..Len(parts) :
            \/ Utf8Len(parts[k]) <= max_length
            \/ \E s \in SentencesOf(content) :
                  Utf8Len(s) > max_length /\ parts[k] = Strip(s)

-----------------------------------------------------------------------------
(* process_txt_file.  The argument is the decoded text of the file.  The     *)
(* records also carry file_name, title, url and video_id, copied from        *)
(* extract_metadata; they are left out here, no step below reads them.       *)

\* str(n) for n >= 0
RECURSIVE DecimalStr(_)
DecimalStr(n) ==
    LET digit(d) == <<"0", "1", "2", "3", "4", "5", "6", "7", "8", "9">>[d + 1] IN
    IF n < 10 THEN <<digit(n)>> ELSE Append(DecimalStr(n \div 10), digit(n % 10))

\* text.split(sep) from position k on; cur is the piece being read
RECURSIVE SplitOnFrom(_, _, _, _, _)
SplitOnFrom(text, sep, k, acc, cur) ==
    IF k > Len(text)
    THEN Append(acc, cur)
    ELSE IF text[k] = sep
         THEN SplitOnFrom(text, sep, k + 1, Append(acc, cur), <<>>)
         ELSE SplitOnFrom(text, sep, k + 1, acc, Append(cur, text[k]))

\* content.split('\n')
SplitLines(text) == SplitOnFrom(text, "\n", 1, <<>>, <<>>)

\* sep.join(pieces)
RECURSIVE JoinWith(_, _)
JoinWith(pieces, sep) ==
    IF pieces = <<>> THEN <<>>
    ELSE IF Len(pieces) = 1 THEN pieces[1]
    ELSE pieces[1] \o <<sep>> \o JoinWith(Tail(pieces), sep)

\* 'TRANSCRIPTION:' in content
is_transcript(text) == \E k \in 1..Len(text) : text[k] = "TRANSCRIPTION:"

\* re.search(r'TRANSCRIPTION:(.*?)(?=={2,}|$)', content, re.DOTALL), then
\* group(1).strip(): the text after the first marker, up to the first run of
\* two or more '=' after it or to the end.
transcript_of(text) ==
    LET marks == {k \in 1..Len(text) : text[k] = "TRANSCRIPTION:"} IN
    IF marks = {}
    THEN <<>>
    ELSE LET p     == CHOOSE k \in marks : \A m \in marks : k <= m
             rules == {k \in (p + 1)..Len(text) : text[k] = "=="}
             q     == IF rules = {} THEN Len(text) + 1
                      ELSE CHOOSE k \in rules : \A m \in rules : k <= m
         IN  Strip(SubSeq(text, p + 1, q - 1))

\* f'Part {i}/{len(content_parts)}' if len(content_parts) > 1 else ''
TranscriptLabel(j, n) ==
    IF n > 1 THEN <<"Part", " ">> \o DecimalStr(j) \o <<"/">> \o DecimalStr(n)
    ELSE <<>>

\* f'{current_chapter} Part {j}/{len(content_parts)}'
\*     if len(content_parts) > 1 else current_chapter
ChapterLabelAlwaysAnnotated(current_chapter, j, n) ==
    current_chapter \o <<" ", "Part", " ">> \o DecimalStr(j) \o <<"/">> \o DecimalStr(n)
ChapterLabel(current_chapter, j, n) ==
    IF n > 1
    THEN current_chapter \o <<" ", "Part", " ">>
             \o DecimalStr(j) \o <<"/">> \o DecimalStr(n)
    ELSE current_chapter

\* the records appended for the parts of a transcript
TranscriptEntries(content_parts) ==
    [j \in 1..Len(content_parts) |->
        [type    |-> "transcript",
         chapter |-> TranscriptLabel(j, Len(content_parts)),
         content |-> content_parts[j]]]

\* the records appended for the parts of one chapter's block
DocumentEntries(current_chapter, content_parts) ==
    [j \in 1..Len(content_parts) |->
        [type    |-> "document",
         chapter |-> ChapterLabel(current_chapter, j, Len(content_parts)),
         content |-> content_parts[j]]]

\* if content_buffer: split ' '.join(content_buffer) and append its records
FlushBuffer(acc, current_chapter, content_buffer, ceiling) ==
    IF content_buffer # <<>>
    THEN acc \o DocumentEntries(current_chapter,
                                split_content(JoinWith(content_buffer, " "), ceiling))
    ELSE acc

\* line.strip().startswith(('Lesson', 'Chapter'))
IsChapterLine(line) ==
    LET t == Strip(line) IN t # <<>> /\ t[1] \in {"Lesson", "Chapter"}

\* the line loop of the structured path from line k on, then the last flush
RECURSIVE StructuredLoop(_, _, _, _, _, _)
StructuredLoop(lines, k, current_chapter, content_buffer, acc, ceiling) ==
    IF k > Len(lines)
    THEN FlushBuffer(acc, current_chapter, content_buffer, ceiling)
    ELSE IF IsChapterLine(lines[k])
         THEN StructuredLoop(lines, k + 1, Strip(lines[k]), <<>>,
                             FlushBuffer(acc, current_chapter, content_buffer, ceiling),
                             ceiling)
         ELSE StructuredLoop(lines, k + 1, current_chapter,
                             IF Strip(lines[k]) # <<>>
                             THEN Append(content_buffer, Strip(lines[k]))
                             ELSE content_buffer,
                             acc, ceiling)

process_txt_file(text, ceiling) ==
    IF is_transcript(text)
    THEN TranscriptEntries(split_content(transcript_of(text), ceiling))
    ELSE StructuredLoop(SplitLines(text), 1, <<>>, <<>>, <<>>, ceiling)

-----------------------------------------------------------------------------
(* SpecProcess: process_txt_file applied to every file of at most MaxLines   *)
(* lines drawn from LinePool, the part ceiling ranging up to MaxCeiling.     *)

MaxLines == 4

LinePool ==
    { <<>>,                         \* an empty line
      <<" ">>,                      \* a blank line
      <<"a", ".">>,                 \* a sentence
      <<" ", "é">>,                 \* indented text without a terminator
      <<"Chapter">>,                \* a chapter marker
      <<" ", "Lesson", "a">>,       \* an indented lesson marker with a title
      <<"TRANSCRIPTION:">>,         \* the transcript marker, its text on the next lines
      <<"==">> }                    \* a rule of '=' characters

InitProcess ==
    /\ pc = "process_call"
    /\ content \in {JoinWith(ls, "\n") : ls \in SeqsUpTo(LinePool, MaxLines)}
    /\ max_length \in 1..MaxCeiling
    /\ entries = <<>>
    /\ parts = Idle /\ file_pos = Idle
    /\ IdlePack /\ IdleIngest

CallProcessTxtFile ==
    /\ pc = "process_call"
    /\ entries' = process_txt_file(content, max_length)
    /\ pc' = "process_done"
    /\ UNCHANGED <<content, max_length, parts, file_pos, packVars, ingestVars>>

NextProcess == CallProcessTxtFile

SpecProcess == InitProcess /\ [][NextProcess]_vars

\* C7: every record process_txt_file returns, on the transcript path and on
\* the structured path, has a content that is not empty after trimming.
C7_ContentNeverEmpty ==
    pc = "process_done" =>
        \A k \in 1..Len(entries) : Strip(entries[k].content) # <<>>

\* The structured path alone keeps C7.
StructuredContentNeverEmpty ==
    (pc = "process_done" /\ ~is_transcript(content)) =>
        \A k \in 1..Len(entries) : Strip(entries[k].content) # <<>>

\* The chapter structure of a structured document, read off its lines.
ChapterLineIndices(lines) == {k \in 1..Len(lines) : IsChapterLine(lines[k])}

NumMarkers(text) == Cardinality(ChapterLineIndices(SplitLines(text)))

\* the line number of the n-th Lesson/Chapter marker
NthMarker(lines, n) ==
    CHOOSE k \in ChapterLineIndices(lines) :
        Cardinality({m \in ChapterLineIndices(lines) : m <= k}) = n

\* the non-blank lines among lines[from..to], trimmed and joined by one space
BlockText(lines, from, to) ==
    LET trimmed == [k \in 1..(to - from + 1) |-> Strip(lines[from + k - 1])]
    IN  JoinWith(SelectSeq(trimmed, LAMBDA l : l # <<>>), " ")

\* the body that follows the n-th marker
BodyOf(text, n) ==
    LET lines == SplitLines(text)
        last  == IF n < NumMarkers(text) THEN NthMarker(lines, n + 1) - 1
                 ELSE Len(lines)
    IN  BlockText(lines, NthMarker(lines, n) + 1, last)

\* the text that precedes the first marker
PreambleOf(text) ==
    LET lines == SplitLines(text)
        last  == IF NumMarkers(text) > 0 THEN NthMarker(lines, 1) - 1 ELSE Len(lines)
    IN  BlockText(lines, 1, last)

LabelOf(text, n) == Strip(SplitLines(text)[NthMarker(SplitLines(text), n)])

\* every Lesson/Chapter body is non-empty and within the ceiling
BodiesShort(text, ceiling) ==
    \A n \in 1..NumMarkers(text) :
        BodyOf(text, n) # <<>> /\ Utf8Len(BodyOf(text, n)) <= ceiling

\* one document record per marker, in marker order, labelled by its marker,
\* without a Part annotation
OneRecordPerMarker(text, es) ==
    /\ Len(es) = NumMarkers(text)
    /\ \A n \in 1..Len(es) :
          /\ es[n].type = "document"
          /\ es[n].chapter = LabelOf(text, n)
          /\ es[n].content = BodyOf(text, n)

\* C10 as stated: a structured document with at least one marker whose bodies
\* are each non-empty and within the ceiling yields exactly one record per
\* marker, in marker order, of type document, labelled by the marker before its
\* body and without a Part annotation.
C10_OneRecordPerMarker ==
    (/\ pc = "process_done"
     /\ ~is_transcript(content)
     /\ NumMarkers(content) >= 1
     /\ BodiesShort(content, max_length))
        => OneRecordPerMarker(content, entries)

\* C10 amended: the same, for a document with no non-blank line before its
\* first marker.
C10_OneRecordPerMarkerNoPreamble ==
    (/\ pc = "process_done"
     /\ ~is_transcript(content)
     /\ PreambleOf(content) = <<>>
     /\ BodiesShort(content, max_length))
        => OneRecordPerMarker(content, entries)

\* a finished run on a structured document of two chapters with short bodies
\* and no preamble
C10_Witness ==
    /\ pc = "process_done"
    /\ ~is_transcript(content)
    /\ PreambleOf(content) = <<>>
    /\ NumMarkers(content) >= 2
    /\ BodiesShort(content, max_length)
    /\ Len(entries) = 2

-----------------------------------------------------------------------------
(* write_csv_file and convert_to_csv.  A record is a function from the       *)
(* seven field names to strings.                                             *)

\* fieldnames of convert_to_csv
fieldnames == <<"type", "file_name", "title", "url", "video_id", "chapter", "content">>

\* len(','.join(fieldnames).encode('utf-8')) + 2, the names being ASCII
RECURSIVE JoinedLen(_)
JoinedLen(names) ==
    IF names = <<>> THEN 0
    ELSE IF Len(names) = 1 THEN Len(names[1])
    ELSE Len(names[1]) + 1 + JoinedLen(Tail(names))

header_size(names) == JoinedLen(names) + 2

\* sum(len(str(value).encode('utf-8')) + 1 for value in entry.values())
RECURSIVE SumValueBytes(_, _)
SumValueBytes(entry, keys) ==
    IF keys = {} THEN 0
    ELSE LET k == CHOOSE x \in keys : TRUE
         IN  Utf8Len(entry[k]) + 1 + SumValueBytes(entry, keys \ {k})

entry_size(entry) == SumValueBytes(entry, DOMAIN entry)

\* not (current_size + entry_size > max_size)
FitsIgnoringEntry(current_size, size, ceiling) == ~(current_size > ceiling)
Fits(current_size, size, ceiling) == ~(current_size + size > ceiling)

\* the for loop of write_csv_file from entry k on; the result is the pair
\* (current_entries, entries[len(current_entries):])
RECURSIVE WriteLoop(_, _, _, _, _)
WriteLoop(es, k, current_entries, current_size, ceiling) ==
    LET result == <<current_entries, SubSeq(es, Len(current_entries) + 1, Len(es))>> IN
    IF k > Len(es)
    THEN result
    ELSE IF ~Fits(current_size, entry_size(es[k]), ceiling)
         THEN result
         ELSE WriteLoop(es, k + 1, Append(current_entries, es[k]),
                        current_size + entry_size(es[k]), ceiling)

write_csv_file(es, names, ceiling) == WriteLoop(es, 1, <<>>, header_size(names), ceiling)

-----------------------------------------------------------------------------
(* SpecPack: convert_to_csv over at most MaxInputFiles listed files.  What   *)
(* process_txt_file gives for a file is drawn from FileResultPool; the batch *)
(* ceiling, 4 MiB in the code, ranges over the values that leave room for    *)
(* MinRoom..MaxRoom bytes of records after the header: from a ceiling that   *)
(* no record of the pool fits under to one that holds three records.         *)

MaxInputFiles == 3
MaxRoom       == 50

MkEntry(text) ==
    [f \in {fieldnames[k] : k \in 1..Len(fieldnames)} |->
        CASE f = "type"    -> <<"document">>
          [] f = "content" -> text
          [] OTHER         -> <<>>]

\* the room a record with an empty content takes
MinRoom == entry_size(MkEntry(<<>>))

EntryA == MkEntry(<<"a">>)                   \* 16 bytes
EntryB == MkEntry(<<"é">>)                   \* 17 bytes
EntryC == MkEntry(<<"a", "é", "a", ".">>)    \* 20 bytes

NotTxt      == [kind |-> "not_txt", entries |-> <<>>]  \* the name does not end in .txt
Raises      == [kind |-> "error", entries |-> <<>>]    \* process_txt_file raises
Returns(es) == [kind |-> "ok", entries |-> es]         \* process_txt_file returns es

FileResultPool ==
    { NotTxt, Raises, Returns(<<>>), Returns(<<EntryA>>),
      Returns(<<EntryB, EntryA>>), Returns(<<EntryC>>) }

\* The output files the model keeps.  A run in which every batch holds a
\* record writes at most one file per record, fewer than MaxOutputFiles; the
\* files and the file_index past MaxOutputFiles are not recorded.
MaxOutputFiles == 2 * MaxInputFiles + 1

InitPack ==
    /\ pc = "listing"
    /\ inputs \in SeqsUpTo(FileResultPool, MaxInputFiles)
    /\ max_size \in {header_size(fieldnames) + r : r \in MinRoom..MaxRoom}
    /\ file_pos = 0
    /\ all_entries = <<>>
    /\ remaining_entries = <<>>
    /\ file_index = 0
    /\ batch = <<>>
    /\ written = <<>>
    /\ content = Idle /\ max_length = Idle /\ parts = Idle /\ entries = Idle
    /\ IdleIngest

\* one iteration of the loop over os.listdir(input_folder)
ProcessFile ==
    /\ pc = "listing"
    /\ file_pos < Len(inputs)
    /\ LET result == inputs[file_pos + 1] IN
       all_entries' = IF result.kind = "ok"
                      THEN all_entries \o result.entries
                      ELSE all_entries
    /\ file_pos' = file_pos + 1
    /\ UNCHANGED <<pc, inputs, remaining_entries, file_index, batch, written, max_size,
                   splitVars, processVars, ingestVars>>

\* the end of the listing: if all_entries: ... else: nothing was extracted
StartPacking ==
    /\ pc = "listing"
    /\ file_pos = Len(inputs)
    /\ IF all_entries # <<>>
       THEN /\ remaining_entries' = all_entries
            /\ file_index' = 1
            /\ pc' = "packing"
       ELSE /\ UNCHANGED <<remaining_entries, file_index>>
            /\ pc' = "done"
    /\ UNCHANGED <<inputs, file_pos, all_entries, batch, written, max_size,
                   splitVars, processVars, ingestVars>>

\* while remaining_entries:
\*     batch, remaining_entries = write_csv_file(remaining_entries, ...)
CallWriteCsvFile ==
    /\ pc = "packing"
    /\ remaining_entries # <<>>
    /\ LET r == write_csv_file(remaining_entries, fieldnames, max_size) IN
       /\ batch' = r[1]
       /\ remaining_entries' = r[2]
    /\ pc' = "writing"
    /\ UNCHANGED <<inputs, file_pos, all_entries, file_index, written, max_size,
                   splitVars, processVars, ingestVars>>

\* the batch is written to output_<file_index>.csv; file_index += 1
WriteOutputFile ==
    /\ pc = "writing"
    /\ IF file_index <= MaxOutputFiles
       THEN /\ written' = Append(written, batch)
            /\ file_index' = file_index + 1
       ELSE UNCHANGED <<written, file_index>>
    /\ pc' = "packing"
    /\ UNCHANGED <<inputs, file_pos, all_entries, remaining_entries, batch, max_size,
                   splitVars, processVars, ingestVars>>

\* the while loop ends
FinishPacking ==
    /\ pc = "packing"
    /\ remaining_entries = <<>>
    /\ pc' = "done"
    /\ UNCHANGED <<inputs, file_pos, all_entries, remaining_entries, file_index,
                   batch, written, max_size, splitVars, processVars, ingestVars>>

NextPack ==
    ProcessFile \/ StartPacking \/ CallWriteCsvFile \/ WriteOutputFile \/ FinishPacking

SpecPack == InitPack /\ [][NextPack]_vars

\* The program is one thread: it takes its next step whenever it has one.
FairSpecPack == SpecPack /\ WF_vars(NextPack)

\* a record that exceeds the ceiling together with the header alone
Oversized(entry) == header_size(fieldnames) + entry_size(entry) > max_size

\* the serialized size of a batch: the header and its records
RECURSIVE SumEntryBytes(_)
SumEntryBytes(es) ==
    IF es = <<>> THEN 0 ELSE entry_size(Head(es)) + SumEntryBytes(Tail(es))

BatchBytes(es) == header_size(fieldnames) + SumEntryBytes(es)

\* C3: every record too large for any batch is eventually written, as the
\* only record of its batch, wherever it stands in the input.
C3_OversizedRecordPlacedAlone ==
    <>(/\ pc \in {"packing", "writing", "done"}
       /\ \A k \in 1..Len(all_entries) :
             Oversized(all_entries[k]) =>
                 \E b \in 1..Len(written) : written[b] = <<all_entries[k]>>)

\* C4: the run of convert_to_csv ends with the written batches, in file-index
\* order, concatenating to the input records: none lost, duplicated or
\* reordered.
C4_BatchesReproduceInput ==
    <>(pc = "done" /\ Concat(written) = all_entries)

\* the batch write_csv_file returned that is not yet written to its file
Pending == IF pc = "writing" THEN <<batch>> ELSE <<>>

\* What the packing loop keeps at every step: the batches returned so far,
\* followed by the remainder, are the input records.
ReturnedThenRemainingIsInput ==
    pc \in {"packing", "writing", "done"} =>
        Concat(written \o Pending) \o remaining_entries = all_entries

\* C9: every batch write_csv_file returns is within the ceiling unless it is
\* exactly one oversized record, and a record that did not fit is carried
\* whole, first in line, to what follows the batch.
C9_BatchWithinCeiling ==
    pc \in {"packing", "writing", "done"} =>
        LET returned == written \o Pending IN
        /\ \A b \in 1..Len(returned) :
              \/ BatchBytes(returned[b]) <= max_size
              \/ Len(returned[b]) = 1 /\ Oversized(returned[b][1])
        /\ \A b \in 1..Len(returned) :
              LET before == Concat(SubSeq(returned, 1, b))
                  after  == Concat(SubSeq(returned, b + 1, Len(returned)))
                                \o remaining_entries
              IN  before \o after = all_entries

\* a finished run in which a record did not fit the first batch and opened
\* the second
C9_Witness ==
    /\ pc = "done"
    /\ Len(written) >= 2
    /\ written[1] # <<>> /\ written[2] # <<>>
    /\ BatchBytes(written[1]) + entry_size(written[2][1]) > max_size

-----------------------------------------------------------------------------
(* ingest_data.  The listing, the reads, the splitter and the remote store   *)
(* are the environment: what they give is chosen freely at each step.        *)

batch_size  == 40
max_retries == 5

MaxListed == 2      \* files os.listdir gives
MaxChunks == 81     \* chunks the splitter gives: up to three batches

\* a listed file: a .txt/.md file that reads as UTF-8, a .txt/.md file whose
\* open or read raises (bytes that are not UTF-8, an I/O error), or a file of
\* another extension
FileKinds == {"text", "unreadable", "other"}

\* (total_chunks + batch_size - 1)//batch_size
NumBatches(n) == (n + batch_size - 1) \div batch_size

\* i//batch_size + 1
BatchNumber(start) == start \div batch_size + 1

\* attempt < max_retries - 1
HasRetriesLeftOffByOne(a) == a < max_retries
HasRetriesLeft(a) == a < max_retries - 1

\* wait_time = 5 * (attempt + 1)
WaitTimeFromZero(a) == 5 * a
WaitTime(a) == 5 * (a + 1)

InitIngest ==
    /\ pc = "start"
    /\ filenames = <<>>
    /\ file_pos = 0
    /\ loaded = 0
    /\ total_chunks = 0
    /\ i = 0
    /\ attempt = 0
    /\ wait_time = 0
    /\ attempts = <<>>
    /\ fails = <<>>
    /\ sleeps = <<>>
    /\ committed = {}
    /\ content = Idle /\ max_length = Idle /\ parts = Idle /\ entries = Idle
    /\ IdlePack

\* os.listdir(docs_path) raises FileNotFoundError: return
ListDirFails ==
    /\ pc = "start"
    /\ pc' = "returned"
    /\ UNCHANGED <<file_pos, splitVars, processVars, packVars, ingestVars>>

\* os.listdir(docs_path) gives the file names
ListDir ==
    /\ pc = "start"
    /\ filenames' \in SeqsUpTo(FileKinds, MaxListed)
    /\ pc' = "reading"
    /\ UNCHANGED <<file_pos, loaded, total_chunks, i, attempt, wait_time, attempts,
                   fails, sleeps, committed, splitVars, processVars, packVars>>

\* one iteration of the loop over filenames; no handler surrounds the read
ReadFile ==
    /\ pc = "reading"
    /\ file_pos < Len(filenames)
    /\ LET kind == filenames[file_pos + 1] IN
       \/ /\ kind = "other"
          /\ file_pos' = file_pos + 1
          /\ UNCHANGED <<pc, loaded>>
       \/ /\ kind = "text"
          /\ file_pos' = file_pos + 1
          /\ loaded' = loaded + 1
          /\ UNCHANGED pc
       \/ /\ kind = "unreadable"
          /\ pc' = "crashed"
          /\ UNCHANGED <<file_pos, loaded>>
    /\ UNCHANGED <<filenames, total_chunks, i, attempt, wait_time, attempts,
                   fails, sleeps, committed, splitVars, processVars, packVars>>

\* after the loop: return when nothing was loaded, else split the documents
\* and enter the loop over range(0, total_chunks, batch_size)
SplitDocuments ==
    /\ pc = "reading"
    /\ file_pos = Len(filenames)
    /\ IF loaded = 0
       THEN /\ pc' = "returned"
            /\ UNCHANGED <<total_chunks, attempts, fails, sleeps>>
       ELSE \E n \in 0..MaxChunks :
            /\ total_chunks' = n
            /\ attempts' = [b \in 1..NumBatches(n) |-> 0]
            /\ fails' = [b \in 1..NumBatches(n) |-> 0]
            /\ sleeps' = [b \in 1..NumBatches(n) |-> <<>>]
            /\ pc' = IF 0 < n THEN "attempting" ELSE "finished"
    /\ UNCHANGED <<filenames, file_pos, loaded, i, attempt, wait_time, committed,
                   splitVars, processVars, packVars>>

\* the step of the outer loop after the retry loop of a batch is left
NextBatchPc(start) == IF start + batch_size < total_chunks THEN "attempting" ELSE "finished"

\* vector_store.add_documents(batch) returns: break, the next batch
UploadSucceeds ==
    /\ pc = "attempting"
    /\ attempts' = [attempts EXCEPT ![BatchNumber(i)] = @ + 1]
    /\ committed' = committed \cup {BatchNumber(i)}
    /\ i' = i + batch_size
    /\ attempt' = 0
    /\ pc' = NextBatchPc(i)
    /\ UNCHANGED <<filenames, file_pos, loaded, total_chunks, wait_time, fails, sleeps,
                   splitVars, processVars, packVars>>

\* vector_store.add_documents(batch) raises
UploadFails ==
    /\ pc = "attempting"
    /\ attempts' = [attempts EXCEPT ![BatchNumber(i)] = @ + 1]
    /\ fails' = [fails EXCEPT ![BatchNumber(i)] = @ + 1]
    /\ IF HasRetriesLeft(attempt)
       THEN /\ wait_time' = WaitTime(attempt)
            /\ pc' = "sleeping"
       ELSE /\ pc' = "halted"
            /\ UNCHANGED wait_time
    /\ UNCHANGED <<filenames, file_pos, loaded, total_chunks, i, attempt, sleeps,
                   committed, splitVars, processVars, packVars>>

\* time.sleep(wait_time) returns; the retry loop goes on to its next attempt,
\* and when range(max_retries) is used up the outer loop goes on
Sleep ==
    /\ pc = "sleeping"
    /\ sleeps' = [sleeps EXCEPT ![BatchNumber(i)] = Append(@, wait_time)]
    /\ IF attempt + 1 < max_retries
       THEN /\ attempt' = attempt + 1
            /\ pc' = "attempting"
            /\ UNCHANGED i
       ELSE /\ attempt' = 0
            /\ i' = i + batch_size
            /\ pc' = NextBatchPc(i)
    /\ UNCHANGED <<filenames, file_pos, loaded, total_chunks, wait_time, attempts,
                   fails, committed, splitVars, processVars, packVars>>

NextIngest ==
    \/ ListDirFails \/ ListDir \/ ReadFile \/ SplitDocuments
    \/ UploadSucceeds \/ UploadFails \/ Sleep

SpecIngest == InitIngest /\ [][NextIngest]_vars

RECURSIVE SumSeq(_)
SumSeq(q) == IF q = <<>> THEN 0 ELSE Head(q) + SumSeq(Tail(q))

\* C1: a batch whose upload failed max_retries times had exactly max_retries
\* attempts, the run is halted on it, no later batch was ever attempted, every
\* earlier batch is committed, and no committed batch is ever taken back.
C1_ExhaustedBatchHaltsRun ==
    /\ [](\A b \in DOMAIN fails :
            fails[b] >= max_retries =>
                /\ pc = "halted"
                /\ BatchNumber(i) = b
                /\ attempts[b] = max_retries
                /\ fails[b] = max_retries
                /\ \A later \in DOMAIN attempts : later > b => attempts[later] = 0
                /\ \A earlier \in 1..(b - 1) : earlier \in committed)
    /\ [][committed \subseteq committed']_vars

\* a run halted on its second batch after the first was committed
C1_Witness ==
    /\ pc = "halted"
    /\ BatchNumber(i) = 2
    /\ fails[2] = max_retries
    /\ 1 \in committed
    /\ NumBatches(total_chunks) = 3

\* C2: a batch whose upload failed k < max_retries times and then succeeded
\* had exactly k+1 attempts, slept 5*a seconds after its a-th failed attempt,
\* 5+10+...+5k seconds in all, and the run went on past it.
C2_RetryThenSuccess ==
    \A b \in committed :
        LET k == fails[b] IN
        /\ k < max_retries
        /\ attempts[b] = k + 1
        /\ sleeps[b] = [a \in 1..k |-> 5 * a]
        /\ SumSeq(sleeps[b]) = (5 * k * (k + 1)) \div 2
        /\ BatchNumber(i) > b
        /\ pc \in {"attempting", "sleeping", "halted", "finished"}
        /\ pc = "finished" <=> i >= total_chunks

\* a finished run whose first batch succeeded on its last allowed attempt and
\* whose second succeeded at once
C2_Witness ==
    /\ pc = "finished"
    /\ committed = {1, 2}
    /\ fails[1] = max_retries - 1
    /\ fails[2] = 0

\* C8: a file that cannot be read never aborts the run: once the loop over the
\* files is left, every listed file has been handled.
C8_FileFailureNeverAborts ==
    /\ pc # "crashed"
    /\ pc \notin {"start", "reading"} => file_pos = Len(filenames)

=============================================================================
